---- MODULE Spec2Model ----
(***************************************************************************)
(* telepirate: task lifecycle and download orchestration.                  *)
(*                                                                         *)
(* One chat.  The dispatcher (engine.rs:106-117) is built with             *)
(* distribution_function(|_| None), so every update is handled in its own  *)
(* spawned tokio task and handlers of the same chat interleave.  The       *)
(* runtime is the multi-threaded one (#[tokio::main]), so synchronous code *)
(* of different handlers interleaves too.  A handler is a process h with a *)
(* program counter pc[h]; every action is the code between two points at   *)
(* which another handler can observe or change shared state (the database, *)
(* the cancellation registry, the file system, the child process).         *)
(*                                                                         *)
(* The database and the chat transport are external.  Database calls are   *)
(* taken to succeed, but for the one whose error is an early return of     *)
(* download_and_send_files; transport calls succeed or fail where the      *)
(* outcome decides control flow.  Panics unwind (the default profile): a   *)
(* panicking handler ends, the process goes on, and a std::sync::Mutex     *)
(* whose guard is dropped by the unwinding is poisoned.                    *)
(***************************************************************************)
EXTENDS Naturals, Integers, Sequences, FiniteSets, TLC

\* ----- bounds -----
MaxEvents == 5        \* chat events delivered in one behaviour
MaxActive == 2        \* handlers in flight at the same time
MaxFiles  == 1        \* qualifying files a child writes
PreTasks  == 2        \* task records an earlier run of the process left behind
MaxBig    == 1        \* files of 2,000,000,000 bytes or more a child has written
MaxRetries == 10      \* max_retries of send_file
MaxTicks  == 4        \* samples one poller loop takes
MaxCount  == 1        \* files a sample counts
MaxSize   == 2        \* a sample's total size, in steps of SizeStep bytes
SizeStep  == 5000
MaxCalls  == 3        \* transition calls made on one TaskState value

Handlers == 1..MaxEvents
Tasks    == 1..MaxEvents      \* an event creates at most one task

MediaTypes == {"Mp3", "Mp4", "Voice"}
Terminal   == {"Success", "Failure"}
\* pc values of a handler that is no longer running
Stopped    == {"returned", "panicked", "rejected"}

VARIABLES
    persisted,   \* task -> state of its record ("none": no record yet, "deleted")
    media,       \* task -> media_type of its record ("none" while New)
    url,         \* task -> its record carries a url
    written,     \* task -> sequence of states written to persistence
    nextTask,    \* next fresh TaskId
    nextH,       \* next handler to spawn
    pc,          \* handler -> position
    htask,       \* handler -> task of its local TaskState clone (0: none)
    hmedia,      \* handler -> media_type of its local clone
    todo,        \* handler -> tasks still to visit (/stop, /clear loops)
    tok,         \* handler -> token got from the registry (0: none)
    ytres,       \* handler -> result of yt_dlp
    paths,       \* handler -> number of paths collected for delivery
    delivered,   \* handler -> files delivered to the chat
    child,       \* handler -> state of its yt-dlp child
    cwdLive,     \* handler -> the child's current directory is still linked
    poller,      \* handler -> state of its poller task
    pollTok,     \* handler -> poller_cancellation_token_tx is cancelled
    cancelled,   \* token (named by its creating handler) -> is cancelled
    reg,         \* TASK_REGISTRY.tasks: task -> token (0: no entry)
    poisoned,    \* TASK_REGISTRY.tasks mutex is poisoned
    dir,         \* task -> its working directory exists
    files,       \* task -> qualifying files in the working directory
    bootpc,      \* "recover" | "dispatching"
    handled,     \* an event was handled since the last boot
    recovered,   \* tasks the boot-time recovery moved to Failure
    outcome,     \* handler -> result of download_and_send_files
    listed,      \* handler -> directory entries its scan was given
    error,       \* handler -> the Err value download_and_send_files returned
    status,      \* handler -> exit status of its child, where a scan is looked
                 \* at on its own ("none": not recorded)
    big,         \* task -> files of 2,000,000,000 bytes or more in the directory
    ledger,      \* task -> tracked-message records of the task exist
    chat,        \* task -> a tracked message of the task is still in the chat
    firedMid,    \* handler -> its token fired while its child was running
    firedEarly,  \* handler -> its token had fired when yt_dlp returned
    stopHit,     \* task -> cancel_task found and signalled its token
    \* one call of send_file
    sendMedia,   \* media type of the file
    attempt,     \* delivery calls made so far
    okAt,        \* the attempt whose delivery call succeeded (0: none)
    notices,     \* retry notices recorded
    sendRet,     \* what send_file returned ("none": still running)
    reports,     \* calls of send_and_remember_msg with a failure text
    cooldowns,   \* sleep(10) waits made
    \* one poller loop
    previousUpdateText,  \* previous_update_text
    sample,      \* the latest sample: <<file_count, size_in_bytes>>
    lastSample,  \* the sample before it
    updateText,  \* update_text of the latest sample
    lastText,    \* update_text of the sample before it
    editCalls,   \* edit calls the latest sample produced
    lastCalls,   \* edit calls the sample before it produced
    attempted,   \* previous_update_text when the latest sample was taken
    shown,       \* text of the tracked message in the chat
    ticks,       \* samples taken
    pollEnd,     \* the loop has ended
    tokenRx,     \* cancellation_token_rx has been cancelled
    slept,       \* the initial sleep(5) has elapsed
    \* calls of the transition functions on one TaskState value
    selfState,   \* the value's variant
    lastCall,    \* the function called last
    calls,       \* calls made
    exited,      \* the process has terminated (std::process::exit)
    inner,       \* the struct the value holds: task_id, chat_id, media_type, url
    content,     \* the object the last update_by_task_id wrote
    \* the loop over the files the download left
    renMedia,    \* media type of the task
    renDir,      \* names of the files in the working directory
    renBig,      \* those of 2,000,000,000 bytes or more
    entries,     \* entries of the glob not yet visited
    renPaths,    \* paths
    renRet,      \* "run": in the loop, "ok": loop left, "err": returned by `?`
    clock,       \* the second SystemTime::now() is in
    \* one call of split_text
    textBytes,   \* the argument text: its UTF-8 bytes
    stringvec,   \* the Vec<String> returned
    splitDone    \* split_text has returned

sendVars  == <<sendMedia, attempt, okAt, notices, sendRet, reports, cooldowns>>
pollVars  == <<previousUpdateText, sample, lastSample, updateText, lastText,
               editCalls, lastCalls, attempted, shown, ticks, pollEnd,
               tokenRx, slept>>
transVars == <<selfState, lastCall, calls, exited, inner, content>>
renVars   == <<renMedia, renDir, renBig, entries, renPaths, renRet, clock>>
splitVars == <<textBytes, stringvec, splitDone>>
subVars   == <<sendVars, pollVars, transVars, renVars, splitVars>>

vars == <<persisted, media, url, written, nextTask, nextH, pc, htask, hmedia, todo,
          tok, ytres, paths, delivered, child, cwdLive, poller, pollTok,
          cancelled, reg, poisoned, dir, files, bootpc, handled,
          recovered, outcome, listed, error, status, big, ledger, chat,
          firedMid, firedEarly, stopHit, subVars>>

mainVars == <<persisted, media, url, written, nextTask, nextH, pc, htask, hmedia, todo,
              tok, ytres, paths, delivered, child, cwdLive, poller, pollTok,
              cancelled, reg, poisoned, dir, files, bootpc, handled,
              recovered, outcome, listed, error, status, big, ledger, chat,
              firedMid, firedEarly, stopHit>>

dbVars   == <<persisted, media, url, written, nextTask, ledger, chat>>
fsVars   == <<dir, files, big, cwdLive>>
regVars  == <<reg, poisoned, cancelled>>
ytVars   == <<tok, ytres, paths, delivered, outcome, listed, error>>
bgVars   == <<child, poller, pollTok, status>>
bootVars == <<bootpc, handled, recovered>>
hVars    == <<htask, hmedia, todo>>
ghost    == <<firedMid, firedEarly, stopHit>>

\* No send_file call, no poller loop and no transition call is looked at on
\* its own.
SendIdle ==
    /\ sendMedia = "none"
    /\ attempt   = 0
    /\ okAt      = 0
    /\ notices   = 0
    /\ sendRet   = "none"
    /\ reports   = 0
    /\ cooldowns = 0

\* Texts are sequences: <<>> is the empty string, NoText stands where there
\* is no text yet.
NoText == <<"-">>

PollIdle ==
    /\ previousUpdateText = <<>>
    /\ sample     = <<>>
    /\ lastSample = <<>>
    /\ updateText = NoText
    /\ lastText   = NoText
    /\ editCalls  = 0
    /\ lastCalls  = 0
    /\ attempted  = <<>>
    /\ shown      = NoText
    /\ ticks      = 0
    /\ pollEnd    = FALSE
    /\ tokenRx    = FALSE
    /\ slept      = FALSE

\* A struct with no field set.
NoInner == [task_id |-> 0, chat_id |-> "none", media_type |-> "none", url |-> "none"]

TransIdle ==
    /\ selfState = "none"
    /\ lastCall  = "none"
    /\ calls     = 0
    /\ exited    = FALSE
    /\ inner     = NoInner
    /\ content   = NoInner

RenIdle ==
    /\ renMedia = "none"
    /\ renDir   = {}
    /\ renBig   = {}
    /\ entries  = <<>>
    /\ renPaths = <<>>
    /\ renRet   = "none"
    /\ clock    = 0

SplitIdle ==
    /\ textBytes = <<>>
    /\ stringvec = <<>>
    /\ splitDone = FALSE

\* The process has just started: no handler, an empty registry, no child.
InitProcess ==
    /\ pc        = [h \in Handlers |-> "idle"]
    /\ htask     = [h \in Handlers |-> 0]
    /\ hmedia    = [h \in Handlers |-> "none"]
    /\ todo      = [h \in Handlers |-> {}]
    /\ tok       = [h \in Handlers |-> 0]
    /\ ytres     = [h \in Handlers |-> "none"]
    /\ paths     = [h \in Handlers |-> 0]
    /\ delivered = [h \in Handlers |-> 0]
    /\ child     = [h \in Handlers |-> "none"]
    /\ cwdLive   = [h \in Handlers |-> FALSE]
    /\ poller    = [h \in Handlers |-> "none"]
    /\ pollTok   = [h \in Handlers |-> FALSE]
    /\ cancelled = [h \in Handlers |-> FALSE]
    /\ reg       = [t \in Tasks |-> 0]
    /\ poisoned  = FALSE
    /\ files     = [t \in Tasks |-> 0]
    /\ bootpc    = "recover"
    /\ handled   = FALSE
    /\ recovered = {}
    /\ outcome   = [h \in Handlers |-> "none"]
    /\ listed    = [h \in Handlers |-> 0]
    /\ error     = [h \in Handlers |-> "none"]
    /\ status    = [h \in Handlers |-> "none"]
    /\ big       = [t \in Tasks |-> 0]
    /\ firedMid   = [h \in Handlers |-> FALSE]
    /\ firedEarly = [h \in Handlers |-> FALSE]
    /\ stopHit    = [t \in Tasks |-> FALSE]

\* First start, on an empty database.
FirstStart ==
    /\ InitProcess
    /\ persisted = [t \in Tasks |-> "none"]
    /\ media     = [t \in Tasks |-> "none"]
    /\ url       = [t \in Tasks |-> FALSE]
    /\ written   = [t \in Tasks |-> <<>>]
    /\ ledger    = [t \in Tasks |-> FALSE]
    /\ chat      = [t \in Tasks |-> FALSE]
    /\ dir       = [t \in Tasks |-> FALSE]
    /\ nextTask  = 1
    /\ nextH     = 1

Init == FirstStart /\ SendIdle /\ PollIdle /\ TransIdle /\ RenIdle /\ SplitIdle

\* The writes that lead a task to state st when nothing interferes.
HistoryOf(st) ==
    CASE st = "none"          -> <<>>
      [] st = "New"           -> <<"New">>
      [] st = "WaitingForUrl" -> <<"New", "WaitingForUrl">>
      [] st = "Running"       -> <<"New", "WaitingForUrl", "Running">>
      [] OTHER                -> <<"New", "WaitingForUrl", "Running", st>>

\* A start on the database an earlier run of the process left behind: up to
\* PreTasks records in any state (a record left Running by a run that ended
\* mid-download, with or without its working directory), and room for
\* PreTasks more events.
RestartInit ==
    /\ InitProcess
    /\ SendIdle /\ PollIdle /\ TransIdle /\ RenIdle /\ SplitIdle
    /\ \E n \in 0..PreTasks :
         /\ nextTask = n + 1
         /\ persisted \in [Tasks -> {"none", "New", "WaitingForUrl", "Running",
                                     "Success", "Failure"}]
         /\ \A t \in Tasks : (persisted[t] = "none") <=> (t > n)
    /\ media \in [Tasks -> MediaTypes \cup {"none"}]
    /\ \A t \in Tasks : (media[t] = "none") <=> (persisted[t] \in {"none", "New"})
    /\ url = [t \in Tasks |-> persisted[t] \in {"Running", "Success", "Failure"}]
    /\ written = [t \in Tasks |-> HistoryOf(persisted[t])]
    /\ ledger = [t \in Tasks |-> persisted[t] # "none"]
    /\ chat   = [t \in Tasks |-> persisted[t] \notin {"none", "Success"}]
    /\ dir \in [Tasks -> BOOLEAN]
    /\ \A t \in Tasks : dir[t] => persisted[t] = "Running"
    /\ nextH = MaxEvents - PreTasks + 1

\* ----- persistence (database.rs, state.rs) -----

\* DbRecord::update_by_task_id: UPDATE ... CONTENT $self WHERE data.task_id = $id.
\* The record is replaced whatever state it holds; a missing record is not created.
HasRecord(t) == persisted[t] \notin {"none", "deleted"}

\* An update that would keep a url the record already carries.
UpdateMergingUrl(t, st, m, u) ==
    IF HasRecord(t)
    THEN /\ persisted' = [persisted EXCEPT ![t] = st]
         /\ media'     = [media EXCEPT ![t] = m]
         /\ url'       = [url EXCEPT ![t] = @ \/ u]
         /\ written'   = [written EXCEPT ![t] = Append(@, st)]
    ELSE UNCHANGED <<persisted, media, url, written>>
\* The value written is the caller's whole TaskState: its variant st, and the
\* media_type m and the url (u: present) of its payload.  to_task_download
\* (simple.rs:35-42) builds the WaitingForUrl payload with url: None, to_running
\* sets the url before it writes, to_task_stats (download.rs:53-61) copies it.
UpdateByTaskId(t, st, m, u) ==
    IF HasRecord(t)
    THEN /\ persisted' = [persisted EXCEPT ![t] = st]
         /\ media'     = [media EXCEPT ![t] = m]
         /\ url'       = [url EXCEPT ![t] = u]
         /\ written'   = [written EXCEPT ![t] = Append(@, st)]
    ELSE UNCHANGED <<persisted, media, url, written>>

\* Task::remember_related_message and the Ok arm of send_and_remember_msg
\* (traits.rs:43-50, 94-98): a message of the chat is recorded under the task.
Remember(t) ==
    /\ ledger' = [ledger EXCEPT ![t] = TRUE]
    /\ chat'   = [chat EXCEPT ![t] = TRUE]

\* TaskState::try_from + intodb: a New record under a fresh TaskId; every caller
\* then records the user's message under it (remember_related_message).
InsertNew ==
    /\ persisted' = [persisted EXCEPT ![nextTask] = "New"]
    /\ written'   = [written EXCEPT ![nextTask] = <<"New">>]
    /\ nextTask'  = nextTask + 1
    /\ Remember(nextTask)
    /\ UNCHANGED <<media, url>>

\* TaskState::from_db_by_chat_id filtered on one state.
TasksIn(S) == {t \in Tasks : persisted[t] \in S}

\* ----- file system (misc.rs) -----

\* remove_dir_all on the task's directory; the caller checks that it exists.
\* A child whose current directory was the removed one writes nothing visible
\* any more, also when a directory of that name is created again.
RemoveDir(t) ==
    /\ dir'     = [dir EXCEPT ![t] = FALSE]
    /\ files'   = [files EXCEPT ![t] = 0]
    /\ big'     = [big EXCEPT ![t] = 0]
    /\ cwdLive' = [h \in Handlers |-> IF htask[h] = t THEN FALSE ELSE cwdLive[h]]

\* ----- handlers: common -----

Active(h) == pc[h] \notin ({"idle"} \cup Stopped)

CanDispatch(h) ==
    /\ bootpc = "dispatching"
    /\ h = nextH
    /\ nextH <= MaxEvents
    /\ Cardinality({g \in Handlers : Active(g)}) < MaxActive

Spawned == /\ nextH' = nextH + 1
           /\ handled' = TRUE
           /\ UNCHANGED <<bootpc, recovered>>

\* A handler that ends (Ok, Err or panic) keeps only its task and its position.
Panic(h) == pc' = [pc EXCEPT ![h] = "panicked"]
Goto(h, l) == pc' = [pc EXCEPT ![h] = l]

\* ----- /start, /ask (engine.rs:210-227) -----

Ask(h) ==
    /\ CanDispatch(h)
    /\ nextTask <= MaxEvents
    /\ InsertNew
    /\ Goto(h, "returned")
    /\ Spawned
    /\ UNCHANGED <<subVars, hVars, ytVars, bgVars, fsVars, regVars, ghost>>

\* ----- callback_handler (engine.rs:135-190) -----

\* Lines 147-181: the chat's tasks are read and filtered on New; callback data
\* that names no media type ends the handler; states_new[0] on an empty list
\* panics.  The order of the rows is the database's, so any New task may be first.
CallbackRead(h) ==
    /\ CanDispatch(h)
    /\ Spawned
    /\ \E data \in MediaTypes \cup {"invalid"} :
         IF data = "invalid"
         THEN Goto(h, "returned") /\ UNCHANGED hVars
         ELSE IF TasksIn({"New"}) = {}
         THEN Panic(h) /\ UNCHANGED hVars
         ELSE \E t \in TasksIn({"New"}) :
                /\ htask'  = [htask EXCEPT ![h] = t]
                /\ hmedia' = [hmedia EXCEPT ![h] = data]
                /\ UNCHANGED todo
                /\ Goto(h, "to_waiting_for_url")
    /\ UNCHANGED <<subVars, dbVars, ytVars, bgVars, fsVars, regVars, ghost>>

\* Line 182, state.rs:137-145: the local clone is New, so the write is issued.
ToWaitingForUrl(h) ==
    /\ pc[h] = "to_waiting_for_url"
    /\ UpdateByTaskId(htask[h], "WaitingForUrl", hmedia[h], FALSE)
    /\ Goto(h, "returned")
    /\ htask'  = [htask EXCEPT ![h] = 0]
    /\ hmedia' = [hmedia EXCEPT ![h] = "none"]
    /\ UNCHANGED <<subVars, nextTask, ledger, chat, nextH, todo, ytVars, bgVars, fsVars, regVars,
                   bootVars, ghost>>

\* ----- message_handler, text that is no command (engine.rs:285-356) -----

\* Lines 345-350: Url::parse failed on the text.  The "Invalid URL: .. Please
\* try again" text is sent and recorded under the task (the user's message was
\* recorded just before, lines 315-317), and the handler returns; the task's
\* record is not written.  The handler ends in "rejected", keeping the task
\* it answered for.
InvalidUrlFailsTask(h, t) ==
    /\ UpdateByTaskId(t, "Failure", media[t], FALSE)
    /\ Remember(t)
    /\ htask' = [htask EXCEPT ![h] = t]
    /\ Goto(h, "rejected")
    /\ UNCHANGED <<nextTask, hmedia, todo, cancelled>>
InvalidUrl(h, t) ==
    /\ Remember(t)
    /\ htask' = [htask EXCEPT ![h] = t]
    /\ Goto(h, "rejected")
    /\ UNCHANGED <<persisted, media, url, written, nextTask, hmedia, todo, cancelled>>

\* Lines 289-324.  No WaitingForUrl task: a New task is created to track the
\* message.  Otherwise waiting_states[0] is cloned and the message is recorded
\* under it; an invalid URL is answered with an error text and the task is left
\* alone; a valid one creates the task's CancellationToken.
MsgRead(h) ==
    /\ CanDispatch(h)
    /\ Spawned
    /\ IF TasksIn({"WaitingForUrl"}) = {}
       THEN /\ nextTask <= MaxEvents
            /\ InsertNew
            /\ Goto(h, "returned")
            /\ UNCHANGED <<hVars, cancelled>>
       ELSE \E t \in TasksIn({"WaitingForUrl"}), valid \in BOOLEAN :
                 IF valid
                 THEN /\ Remember(t)
                      /\ htask'  = [htask EXCEPT ![h] = t]
                      /\ hmedia' = [hmedia EXCEPT ![h] = media[t]]
                      /\ cancelled' = [cancelled EXCEPT ![h] = FALSE]
                      /\ Goto(h, "to_running")
                      /\ UNCHANGED <<persisted, media, url, written, nextTask, todo>>
                 ELSE InvalidUrl(h, t)
    /\ UNCHANGED <<subVars, ytVars, bgVars, fsVars, reg, poisoned, ghost>>

\* state.rs:147-152: the Running record is written.
ToRunning(h) ==
    /\ pc[h] = "to_running"
    /\ UpdateByTaskId(htask[h], "Running", hmedia[h], TRUE)
    /\ Goto(h, "register")
    /\ UNCHANGED <<subVars, nextTask, ledger, chat, nextH, hVars, ytVars, bgVars, fsVars, regVars,
                   bootVars, ghost>>

\* CancellationRegistry::register_task (cancellation.rs:28-32): lock().unwrap()
\* panics on a poisoned mutex; insert overwrites an entry of the same task.
RegisterTask(t, k) ==
    /\ ~poisoned
    /\ reg' = [reg EXCEPT ![t] = k]

\* state.rs:154, then process_request (download.rs:63-69): the "Preparing the
\* download..." text is sent; send_and_remember_msg only logs a failed send and
\* returns an empty list, and tracked_messages[0] panics on it.
Register(h) ==
    /\ pc[h] = "register"
    /\ IF poisoned
       THEN Panic(h) /\ UNCHANGED <<reg, ledger, chat>>
       ELSE /\ RegisterTask(htask[h], h)
            /\ \E sent \in BOOLEAN :
                 IF sent THEN Goto(h, "spawn_poller") /\ Remember(htask[h])
                 ELSE Panic(h) /\ UNCHANGED <<ledger, chat>>
    /\ UNCHANGED <<subVars, persisted, media, url, written, nextTask, nextH, hVars, ytVars, bgVars, fsVars, poisoned,
                   cancelled, bootVars, ghost>>

\* ----- download_and_send_files (download.rs:145-230) -----

\* Lines 151-158: the poller task is spawned; it runs on its own.
SpawnPoller(h) ==
    /\ pc[h] = "spawn_poller"
    /\ poller' = [poller EXCEPT ![h] = "spawned"]
    /\ Goto(h, "cleanup0")
    /\ UNCHANGED <<subVars, dbVars, nextH, hVars, ytVars, child, pollTok, status, fsVars,
                   regVars, bootVars, ghost>>

\* misc.rs:14-17: remove_dir_all(..).unwrap() panics when the directory is missing.
\* Line 164: the first cleanup of the working directory.
Cleanup0(h) ==
    /\ pc[h] = "cleanup0"
    /\ IF dir[htask[h]]
       THEN RemoveDir(htask[h]) /\ Goto(h, "get_token")
       ELSE Panic(h) /\ UNCHANGED fsVars
    /\ UNCHANGED <<subVars, dbVars, nextH, hVars, ytVars, bgVars, regVars, bootVars, ghost>>

\* CancellationRegistry::get_token (cancellation.rs:47-50).
GetTokenFails(t) == poisoned \/ reg[t] = 0

\* Line 167: TASK_REGISTRY.get_token(task_id).unwrap().
GetToken(h) ==
    /\ pc[h] = "get_token"
    /\ IF GetTokenFails(htask[h])
       THEN Panic(h) /\ UNCHANGED tok
       ELSE tok' = [tok EXCEPT ![h] = reg[htask[h]]] /\ Goto(h, "yt_start")
    /\ UNCHANGED <<subVars, dbVars, nextH, hVars, ytres, paths, delivered, outcome, listed,
                   error, bgVars, fsVars, regVars, bootVars, ghost>>

\* ----- yt_dlp (download.rs:311-397) -----

\* Lines 317-352: create_dir_all, the child is spawned in the directory, and the
\* two reader tasks are spawned.
YtStart(h) ==
    /\ pc[h] = "yt_start"
    /\ dir'     = [dir EXCEPT ![htask[h]] = TRUE]
    /\ cwdLive' = [cwdLive EXCEPT ![h] = TRUE]
    /\ child'   = [child EXCEPT ![h] = "running"]
    /\ Goto(h, "yt_wait")
    /\ UNCHANGED <<subVars, dbVars, nextH, hVars, ytVars, poller, pollTok, status, files, big,
                   regVars, bootVars, ghost>>

\* The external downloader: it writes qualifying files into its current
\* directory, closes its output streams and exits, in its own time.
ChildWrite(h) ==
    /\ child[h] = "running"
    /\ cwdLive[h]
    /\ files[htask[h]] < MaxFiles
    /\ files' = [files EXCEPT ![htask[h]] = @ + 1]
    /\ UNCHANGED <<subVars, dbVars, nextH, pc, hVars, ytVars, bgVars, dir, big, cwdLive,
                   regVars, bootVars, ghost>>

ChildClose(h) ==
    /\ child[h] = "running"
    /\ child' = [child EXCEPT ![h] = "closed"]
    /\ UNCHANGED <<subVars, dbVars, nextH, pc, hVars, ytVars, poller, pollTok, status, fsVars,
                   regVars, bootVars, ghost>>

\* The child ends; its exit status is not looked at by yt_dlp (lines 358-370).
ChildExit(h) ==
    /\ child[h] = "closed"
    /\ child' = [child EXCEPT ![h] = "exited"]
    /\ UNCHANGED <<subVars, dbVars, nextH, pc, hVars, ytVars, poller, pollTok, status, fsVars,
                   regVars, bootVars, ghost>>

\* Line 355: tokio::join!(stdout_task, stderr_task) completes when both streams
\* have reached end of file; only then is the select! of lines 358-396 entered.
StreamsDrained(h) == child[h] \in {"closed", "exited", "killed"}

\* Lines 358-396: child.wait() against cancellation_token.cancelled(); select!
\* takes either branch when both are ready.  The cancellation branch kills the
\* child (a no-op once it has exited) and reaps it.
YtFinish(h) ==
    /\ pc[h] = "yt_wait"
    /\ StreamsDrained(h)
    /\ \/ /\ child[h] = "exited"
          /\ ytres' = [ytres EXCEPT ![h] = "ok"]
          /\ UNCHANGED child
       \/ /\ cancelled[tok[h]]
          /\ ytres' = [ytres EXCEPT ![h] = "cancelled"]
          /\ child' = [child EXCEPT ![h] = IF @ = "closed" THEN "killed" ELSE @]
    /\ firedEarly' = [firedEarly EXCEPT ![h] = cancelled[tok[h]]]
    /\ Goto(h, "glob")
    /\ UNCHANGED <<subVars, dbVars, nextH, hVars, tok, paths, delivered, outcome,
                   listed, error, poller, pollTok, status, fsVars, regVars,
                   bootVars, firedMid, stopHit>>

\* Lines 171-175: the entries glob yields for the media type's extension.
Listed(t) == IF dir[t] THEN files[t] + big[t] ELSE 0

\* Lines 176-199: of these, the files under 2,000,000,000 bytes are collected;
\* the result of yt_dlp is not looked at.
CollectedUnfiltered(t) == IF dir[t] THEN files[t] + big[t] ELSE 0
Collected(t) == IF dir[t] THEN files[t] ELSE 0

\* Lines 169-175: the directory is listed.
Glob(h) ==
    /\ pc[h] = "glob"
    /\ listed' = [listed EXCEPT ![h] = Listed(htask[h])]
    /\ paths'  = [paths EXCEPT ![h] = Collected(htask[h])]
    /\ Goto(h, "stat")
    /\ UNCHANGED <<subVars, dbVars, nextH, hVars, tok, ytres, delivered, outcome,
                   error, bgVars, fsVars, regVars, bootVars, ghost>>

\* Lines 176-205 and 221: metadata() is called on every entry, and `?` returns its
\* error when an entry has gone since the listing: the poller's token is not
\* cancelled and the directory is not touched.  Otherwise the poller's token is
\* cancelled, before the files are sent or, with no file, before the poller is
\* awaited.
Stat(h) ==
    /\ pc[h] = "stat"
    /\ IF Listed(htask[h]) < listed[h]
       THEN /\ outcome' = [outcome EXCEPT ![h] = "err"]
            /\ error'   = [error EXCEPT ![h] = "io"]
            /\ Goto(h, "report")
            /\ UNCHANGED pollTok
       ELSE /\ pollTok' = [pollTok EXCEPT ![h] = TRUE]
            /\ Goto(h, IF paths[h] = 0 THEN "await_poller" ELSE "send")
            /\ UNCHANGED <<outcome, error>>
    /\ UNCHANGED <<subVars, dbVars, nextH, hVars, tok, ytres, paths, delivered,
                   listed, child, poller, status, fsVars, regVars,
                   bootVars, ghost>>

\* Lines 223-225, send_file (95-143): k of the files reach the chat; send_file
\* returns Ok also when every attempt failed; for Mp4 compress_thumbnail(..).unwrap()
\* panics when the thumbnail cannot be prepared; and the `?` of line 137 returns
\* the error of recording a retry notice, which line 224 passes on.  A file can
\* be sent only while it is still in the directory.
Send(h) ==
    /\ pc[h] = "send"
    /\ \/ /\ \E k \in 0..paths[h] :
               /\ k > 0 => (dir[htask[h]] /\ files[htask[h]] >= k)
               /\ delivered' = [delivered EXCEPT ![h] = k]
          /\ Goto(h, "await_poller")
          /\ UNCHANGED <<outcome, error>>
       \/ /\ hmedia[h] = "Mp4"
          /\ Panic(h)
          /\ UNCHANGED <<delivered, outcome, error>>
       \/ /\ outcome' = [outcome EXCEPT ![h] = "err"]
          /\ error'   = [error EXCEPT ![h] = "db"]
          /\ Goto(h, "report")
          /\ UNCHANGED delivered
    /\ UNCHANGED <<subVars, dbVars, nextH, hVars, tok, ytres, paths, listed,
                   bgVars, fsVars, regVars, bootVars, ghost>>

\* Lines 210-218: the Err value of a run that collected no file: the Debug text
\* of the child's Output when yt_dlp returned Ok, else the error of yt_dlp.
ErrorText(res) == IF res = "ok" THEN "output" ELSE "cancelled"

\* Lines 207-218 and 227-229: the poller is awaited, the directory is removed, and
\* the result is Err when nothing was collected, Ok otherwise.
FinalCleanup(h) ==
    /\ pc[h] = "await_poller"
    /\ poller[h] = "done"
    /\ IF dir[htask[h]]
       THEN /\ RemoveDir(htask[h])
            /\ outcome' = [outcome EXCEPT ![h] = IF paths[h] = 0 THEN "err" ELSE "ok"]
            /\ error'   = [error EXCEPT ![h] =
                             IF paths[h] = 0 THEN ErrorText(ytres[h]) ELSE "none"]
            /\ Goto(h, "report")
       ELSE Panic(h) /\ UNCHANGED <<fsVars, outcome, error>>
    /\ UNCHANGED <<subVars, dbVars, nextH, hVars, tok, ytres, paths, delivered,
                   listed, bgVars, regVars, bootVars, ghost>>

\* ----- process_request, after download_and_send_files (download.rs:74-92) -----

\* Task::delete_messages_by_task_id (traits.rs:101-116): the task's tracked
\* messages are read from the ledger and deleted from the chat; the ledger is
\* not written.
DeleteMessagesByTaskId(t) ==
    /\ chat' = [chat EXCEPT ![t] = chat[t] /\ ~ledger[t]]
    /\ UNCHANGED ledger

\* Err: the error's text is sent to the chat and recorded.  Ok: the task's
\* tracked messages are deleted.
Report(h) ==
    /\ pc[h] = "report"
    /\ IF outcome[h] = "err"
       THEN Remember(htask[h])
       ELSE DeleteMessagesByTaskId(htask[h])
    /\ Goto(h, "to_terminal")
    /\ UNCHANGED <<subVars, persisted, media, url, written, nextTask, nextH, hVars,
                   ytVars, bgVars, fsVars, regVars, bootVars, ghost>>

\* ----- to_success / to_failure (state.rs:160-180, engine.rs:334-343) -----

TerminalOf(res) == IF res = "ok" THEN "Success" ELSE "Failure"

\* The terminal record is written.
ToTerminal(h) ==
    /\ pc[h] = "to_terminal"
    /\ UpdateByTaskId(htask[h], TerminalOf(outcome[h]), hmedia[h], TRUE)
    /\ Goto(h, "deregister")
    /\ UNCHANGED <<subVars, nextTask, ledger, chat, nextH, hVars, ytVars, bgVars, fsVars, regVars,
                   bootVars, ghost>>

\* CancellationRegistry::remove_task (cancellation.rs:52-56); absence is no error.
RemoveTask(t) == reg' = [reg EXCEPT ![t] = 0]

\* state.rs:165 and 176: the entry is removed after the write.
Deregister(h) ==
    /\ pc[h] = "deregister"
    /\ IF poisoned
       THEN Panic(h) /\ UNCHANGED reg
       ELSE RemoveTask(htask[h]) /\ Goto(h, "returned")
    /\ UNCHANGED <<subVars, dbVars, nextH, hVars, ytVars, bgVars, fsVars, poisoned,
                   cancelled, bootVars, ghost>>

\* ----- the poller (trackedmessage.rs:49-135) -----

\* Lines 56-60: create_dir_all on the working directory, once, at its start.
PollerStart(h) ==
    /\ poller[h] = "spawned"
    /\ poller' = [poller EXCEPT ![h] = "running"]
    /\ dir' = [dir EXCEPT ![htask[h]] = TRUE]
    /\ UNCHANGED <<subVars, dbVars, nextH, pc, hVars, ytVars, child, pollTok, status, files,
                   big, cwdLive, regVars, bootVars, ghost>>

\* Lines 74-92: the loop ends once its token is cancelled.
PollerStop(h) ==
    /\ poller[h] = "running"
    /\ pollTok[h]
    /\ poller' = [poller EXCEPT ![h] = "done"]
    /\ UNCHANGED <<subVars, dbVars, nextH, pc, hVars, ytVars, child, pollTok, status, fsVars,
                   regVars, bootVars, ghost>>

\* ----- /stop (engine.rs:228-248) -----

\* Lines 231-243: a New task is created for the command, then the chat's
\* Running tasks are read.
StopRead(h) ==
    /\ CanDispatch(h)
    /\ Spawned
    /\ nextTask <= MaxEvents
    /\ InsertNew
    /\ todo' = [todo EXCEPT ![h] = TasksIn({"Running"})]
    /\ Goto(h, IF TasksIn({"Running"}) = {} THEN "returned" ELSE "stop_loop")
    /\ UNCHANGED <<subVars, htask, hmedia, ytVars, bgVars, fsVars, regVars, ghost>>

\* CancellationRegistry::cancel_task (cancellation.rs:34-45), what it returns:
\* lock().unwrap() panics on a poisoned mutex; with an entry, cleanup panics when
\* the directory is missing.
CancelResult(t) ==
    IF poisoned THEN "panic"
    ELSE IF reg[t] = 0 THEN "false"
    ELSE IF dir[t] THEN "true" ELSE "panic"

\* cancel_task, what it changes: the entry is removed and its token cancelled
\* before cleanup runs; a panic in cleanup unwinds through the guard and
\* poisons the mutex.
CancelTask(t) ==
    IF ~poisoned /\ reg[t] # 0
    THEN /\ reg'       = [reg EXCEPT ![t] = 0]
         /\ cancelled' = [cancelled EXCEPT ![reg[t]] = TRUE]
         /\ stopHit'   = [stopHit EXCEPT ![t] = TRUE]
         /\ firedMid'  = [h \in Handlers |->
                            firedMid[h] \/ (tok[h] = reg[t] /\ child[h] = "running")]
         /\ IF dir[t]
            THEN RemoveDir(t) /\ UNCHANGED poisoned
            ELSE poisoned' = TRUE /\ UNCHANGED fsVars
    ELSE UNCHANGED <<regVars, fsVars, stopHit, firedMid>>

\* Lines 244-246: one call of the loop, on task t.
StopCancelOn(h, t) ==
    /\ pc[h] = "stop_loop"
    /\ t \in todo[h]
    /\ CancelTask(t)
    /\ todo' = [todo EXCEPT ![h] = @ \ {t}]
    /\ pc' = [pc EXCEPT ![h] = IF CancelResult(t) = "panic" THEN "panicked"
                               ELSE IF todo[h] = {t} THEN "returned"
                               ELSE "stop_loop"]
    /\ UNCHANGED <<subVars, dbVars, nextH, htask, hmedia, ytVars, bgVars, bootVars, firedEarly>>

StopCancel(h) == \E t \in Tasks : StopCancelOn(h, t)

\* ----- /clear (engine.rs:249-284) -----

\* Lines 252-269: a New task is created for the command, then the chat's New,
\* WaitingForUrl and Failure tasks are read (the new one among them).
ClearRead(h) ==
    /\ CanDispatch(h)
    /\ Spawned
    /\ nextTask <= MaxEvents
    /\ InsertNew
    /\ todo' = [todo EXCEPT ![h] =
                  TasksIn({"New", "WaitingForUrl", "Failure"}) \cup {nextTask}]
    /\ Goto(h, "clear_loop")
    /\ UNCHANGED <<subVars, htask, hmedia, ytVars, bgVars, fsVars, regVars, ghost>>

\* Lines 271-282: the task's tracked messages are deleted from the ledger and
\* from the chat, and its record is deleted, by
\* task_id, whatever state the record holds by now.
ClearDelete(h) ==
    /\ pc[h] = "clear_loop"
    /\ \E t \in todo[h] :
         /\ persisted' = [persisted EXCEPT ![t] = "deleted"]
         /\ media'     = [media EXCEPT ![t] = "none"]
         /\ url'       = [url EXCEPT ![t] = FALSE]
         /\ ledger'    = [ledger EXCEPT ![t] = FALSE]
         /\ chat'      = [chat EXCEPT ![t] = FALSE]
         /\ todo'      = [todo EXCEPT ![h] = @ \ {t}]
         /\ Goto(h, IF todo[h] = {t} THEN "returned" ELSE "clear_loop")
    /\ UNCHANGED <<subVars, written, nextTask, nextH, htask, hmedia, ytVars, bgVars, fsVars,
                   regVars, bootVars, ghost>>

\* ----- process start (engine.rs:71-102) -----

\* A recovery that stops after the first Running task it finds.
BootRunningFirstOnly ==
    {t \in TasksIn({"Running"}) : \A u \in TasksIn({"Running"}) : t <= u}

\* Lines 75-79: the tasks found persisted as Running.
BootRunning == TasksIn({"Running"})

\* Lines 75-101: every such task is moved to Failure, then the dispatcher starts.
Boot ==
    /\ bootpc = "recover"
    /\ persisted' = [t \in Tasks |->
                       IF t \in BootRunning THEN "Failure" ELSE persisted[t]]
    /\ written'   = [t \in Tasks |->
                       IF t \in BootRunning THEN Append(written[t], "Failure")
                       ELSE written[t]]
    /\ recovered' = BootRunning
    /\ bootpc'    = "dispatching"
    /\ UNCHANGED <<subVars, media, url, nextTask, ledger, chat, nextH, pc, hVars, ytVars,
                   bgVars, fsVars, regVars, handled, ghost>>

Next ==
    \/ Boot
    \/ \E h \in Handlers :
         \/ Ask(h)
         \/ CallbackRead(h)
         \/ ToWaitingForUrl(h)
         \/ MsgRead(h)
         \/ ToRunning(h)
         \/ Register(h)
         \/ SpawnPoller(h)
         \/ Cleanup0(h)
         \/ GetToken(h)
         \/ YtStart(h)
         \/ ChildWrite(h)
         \/ ChildClose(h)
         \/ ChildExit(h)
         \/ YtFinish(h)
         \/ Glob(h)
         \/ Stat(h)
         \/ Send(h)
         \/ FinalCleanup(h)
         \/ Report(h)
         \/ ToTerminal(h)
         \/ Deregister(h)
         \/ PollerStart(h)
         \/ PollerStop(h)
         \/ StopRead(h)
         \/ StopCancel(h)
         \/ ClearRead(h)
         \/ ClearDelete(h)

Spec == Init /\ [][Next]_vars

RestartSpec == RestartInit /\ [][Next]_vars

\* The scheduling the runtime gives: a handler or a poller that can take a step
\* takes one, and the process gets through its start.  Chat events and the
\* external downloader keep their own time: nothing makes a user send a
\* message or the child write, close its streams or exit.
HandlerStep(h) ==
    \/ ToWaitingForUrl(h) \/ ToRunning(h) \/ Register(h) \/ SpawnPoller(h)
    \/ Cleanup0(h) \/ GetToken(h) \/ YtStart(h) \/ YtFinish(h) \/ Glob(h)
    \/ Stat(h) \/ Send(h) \/ FinalCleanup(h) \/ Report(h) \/ ToTerminal(h)
    \/ Deregister(h)
    \/ StopCancel(h) \/ ClearDelete(h)

PollerStep(h) == PollerStart(h) \/ PollerStop(h)

Fairness ==
    /\ WF_vars(Boot)
    /\ \A h \in Handlers : WF_vars(HandlerStep(h)) /\ WF_vars(PollerStep(h))

FairSpec == Spec /\ Fairness

\* ----- one scan, from the return of yt_dlp on -----

\* yt_dlp has just returned in the URL handler of a Running task, and the
\* handler is about to list the directory.  Either the child has exited, with
\* exit status 0 or another one, and yt_dlp returned Ok(Output); or the task's
\* token was cancelled and yt_dlp returned the cancellation error, the
\* directory being there or not (cancel_task removes it).  The directory
\* holds up to MaxFiles qualifying files and up to MaxBig oversized ones.
ScanInit ==
    /\ SendIdle /\ PollIdle /\ TransIdle /\ RenIdle /\ SplitIdle
    /\ persisted = [t \in Tasks |-> IF t = 1 THEN "Running" ELSE "none"]
    /\ url       = [t \in Tasks |-> t = 1]
    /\ written   = [t \in Tasks |-> HistoryOf(persisted[t])]
    /\ ledger    = [t \in Tasks |-> t = 1]
    /\ chat      = [t \in Tasks |-> t = 1]
    /\ nextTask  = 2
    /\ nextH     = 2
    /\ bootpc    = "dispatching"
    /\ handled   = TRUE
    /\ recovered = {}
    /\ poisoned  = FALSE
    /\ pc        = [h \in Handlers |-> IF h = 1 THEN "glob" ELSE "idle"]
    /\ htask     = [h \in Handlers |-> IF h = 1 THEN 1 ELSE 0]
    /\ todo      = [h \in Handlers |-> {}]
    /\ tok       = [h \in Handlers |-> IF h = 1 THEN 1 ELSE 0]
    /\ paths     = [h \in Handlers |-> 0]
    /\ delivered = [h \in Handlers |-> 0]
    /\ poller    = [h \in Handlers |-> IF h = 1 THEN "running" ELSE "none"]
    /\ pollTok   = [h \in Handlers |-> FALSE]
    /\ outcome   = [h \in Handlers |-> "none"]
    /\ listed    = [h \in Handlers |-> 0]
    /\ error     = [h \in Handlers |-> "none"]
    /\ firedMid  = [h \in Handlers |-> FALSE]
    /\ \E m \in MediaTypes :
         /\ media  = [t \in Tasks |-> IF t = 1 THEN m ELSE "none"]
         /\ hmedia = [h \in Handlers |-> IF h = 1 THEN m ELSE "none"]
    /\ \E res \in {"ok", "cancelled"}, st \in {"zero", "nonzero"} :
         /\ ytres      = [h \in Handlers |-> IF h = 1 THEN res ELSE "none"]
         /\ status     = [h \in Handlers |->
                            IF h = 1 /\ res = "ok" THEN st ELSE "none"]
         /\ res = "cancelled" => st = "zero"
         /\ child      = [h \in Handlers |->
                            IF h # 1 THEN "none"
                            ELSE IF res = "ok" THEN "exited" ELSE "killed"]
         /\ cancelled  = [h \in Handlers |-> h = 1 /\ res = "cancelled"]
         /\ firedEarly = [h \in Handlers |-> h = 1 /\ res = "cancelled"]
         /\ stopHit    = [t \in Tasks |-> t = 1 /\ res = "cancelled"]
         /\ reg        = [t \in Tasks |-> IF t = 1 /\ res = "ok" THEN 1 ELSE 0]
         /\ \E d \in BOOLEAN, n \in 0..MaxFiles, b \in 0..MaxBig :
              /\ res = "ok" => d
              /\ ~d => (n = 0 /\ b = 0)
              /\ dir     = [t \in Tasks |-> t = 1 /\ d]
              /\ cwdLive = [h \in Handlers |-> h = 1 /\ d]
              /\ files   = [t \in Tasks |-> IF t = 1 THEN n ELSE 0]
              /\ big     = [t \in Tasks |-> IF t = 1 THEN b ELSE 0]

ScanNext ==
    \E h \in Handlers :
        \/ Glob(h)
        \/ Stat(h)
        \/ Send(h)
        \/ FinalCleanup(h)
        \/ Report(h)
        \/ ToTerminal(h)
        \/ Deregister(h)
        \/ PollerStop(h)

ScanSpec == ScanInit /\ [][ScanNext]_vars

\* ----- one call of send_file (download.rs:95-143) -----

\* The call starts on a file of any media type, in a process that does nothing
\* else.
SendInit ==
    /\ FirstStart /\ PollIdle /\ TransIdle /\ RenIdle /\ SplitIdle
    /\ sendMedia \in MediaTypes
    /\ attempt = 0
    /\ okAt    = 0
    /\ notices = 0
    /\ sendRet = "none"
    /\ reports = 0
    /\ cooldowns = 0

\* Lines 124-127: what the call returns when the delivery call of attempt a
\* has succeeded, `return Ok(())` ("none": the loop goes on).
AfterSuccessGoOn(a) == IF a = MaxRetries THEN "Ok" ELSE "none"
AfterSuccess(a) == "Ok"

\* Line 134: `if attempt < max_retries`.
ReportAlways(a) == TRUE
ReportDue(a) == a < MaxRetries

\* Lines 128-140: after a failed delivery call sleep(10) is awaited, then a
\* retry notice is sent unless the attempt was the last one; the notice is
\* recorded, or its sending fails and is only logged, or recording it fails
\* and `?` returns the error.  After the last attempt the loop ends and its
\* value () is wrapped in Ok (line 100); the Err of line 139 is commented out.
AfterFailure(a) ==
    /\ cooldowns' = cooldowns + 1
    /\ IF ReportDue(a)
       THEN /\ reports' = reports + 1
            /\ \/ notices' = notices + 1 /\ sendRet' = "none"
               \/ notices' = notices     /\ sendRet' = "none"
               \/ notices' = notices     /\ sendRet' = "Err"
       ELSE /\ UNCHANGED <<reports, notices>>
            /\ sendRet' = IF a < MaxRetries THEN "none" ELSE "Ok"

\* One iteration of the loop of lines 100-141: for Mp4 the thumbnail is
\* prepared, and compress_thumbnail(..).unwrap() panics when that fails; the
\* delivery call is made and succeeds or fails.
SendAttempt ==
    /\ sendRet = "none"
    /\ attempt < MaxRetries
    /\ \/ /\ sendMedia = "Mp4"
          /\ sendRet' = "panic"
          /\ UNCHANGED <<attempt, okAt, notices, reports, cooldowns>>
       \/ /\ attempt' = attempt + 1
          /\ \/ /\ okAt' = IF okAt = 0 THEN attempt' ELSE okAt
                /\ sendRet' = AfterSuccess(attempt')
                /\ UNCHANGED <<notices, reports, cooldowns>>
             \/ /\ AfterFailure(attempt')
                /\ UNCHANGED okAt
    /\ UNCHANGED <<mainVars, sendMedia, pollVars, transVars, renVars, splitVars>>

SendSpec == SendInit /\ [][SendAttempt]_vars

\* ----- one poller loop (trackedmessage.rs:68-125) -----

\* FolderData::format_bytes_to_megabytes (misc.rs:107-109): "{:.2} MB" of
\* size_in_bytes / (1024 * 1024), as the number of hundredths it prints (no
\* size is half way between two of them).
Hundredths(bytes) == (bytes * 100 + 524288) \div 1048576

\* Lines 103-107: update_text of a sample.
UpdateText(count, bytes) == <<"Downloading...", count, Hundredths(bytes)>>

\* The loop starts: previous_update_text is the empty string and the tracked
\* message shows the text it was sent with.
PollInit ==
    /\ FirstStart /\ SendIdle /\ TransIdle /\ RenIdle /\ SplitIdle
    /\ previousUpdateText = <<>>
    /\ sample     = <<>>
    /\ lastSample = <<>>
    /\ updateText = NoText
    /\ lastText   = NoText
    /\ editCalls  = 0
    /\ lastCalls  = 0
    /\ attempted  = <<>>
    /\ shown      = <<"Preparing the download...">>
    /\ ticks      = 0
    /\ pollEnd    = FALSE
    /\ tokenRx    = FALSE
    /\ slept      = FALSE

\* Line 109: `if update_text != previous_update_text`.
EditAlways(text, previous) == TRUE
EditNeeded(text, previous) == text # previous

\* Lines 93-123: a tick, taken whenever the interval is ready: the select! of
\* line 75 is not biased, so with the token cancelled and the interval ready
\* either branch may run.  The directory is sampled and the sample formatted;
\* when the text differs from previous_update_text it replaces it and one
\* edit call is made, whose failure is only logged.
PollTick ==
    /\ ~pollEnd
    /\ slept
    /\ ticks < MaxTicks
    /\ ticks' = ticks + 1
    /\ \E count \in 0..MaxCount, k \in 0..MaxSize :
         /\ sample' = <<count, k * SizeStep>>
         /\ updateText' = UpdateText(count, k * SizeStep)
    /\ lastSample' = sample
    /\ lastText'   = updateText
    /\ lastCalls'  = editCalls
    /\ attempted'  = previousUpdateText
    /\ IF EditNeeded(updateText', previousUpdateText)
       THEN /\ previousUpdateText' = updateText'
            /\ editCalls' = 1
            /\ shown' \in {updateText', shown}
       ELSE /\ editCalls' = 0
            /\ UNCHANGED <<previousUpdateText, shown>>
    /\ UNCHANGED <<mainVars, sendVars, pollEnd, tokenRx, slept, transVars, renVars,
                   splitVars>>

\* Lines 76-92: the token is cancelled; one edit call with the closing text,
\* whose failure is only logged, and the loop ends.
PollCancelled ==
    /\ ~pollEnd
    /\ slept
    /\ tokenRx
    /\ pollEnd' = TRUE
    /\ shown' \in {<<"Downloading finalized.">>, shown}
    /\ UNCHANGED <<mainVars, sendVars, previousUpdateText, sample, lastSample,
                   updateText, lastText, editCalls, lastCalls, attempted, ticks,
                   tokenRx, slept, transVars, renVars, splitVars>>

\* The token is cancelled by its owner (cancel_task, or the supervisor when
\* the download has ended), at any moment of the poller's life.
PollFire ==
    /\ ~tokenRx
    /\ ~pollEnd
    /\ tokenRx' = TRUE
    /\ UNCHANGED <<mainVars, sendVars, previousUpdateText, sample, lastSample,
                   updateText, lastText, editCalls, lastCalls, attempted, shown,
                   ticks, pollEnd, slept, transVars, renVars, splitVars>>

\* Line 73: sleep(5).await, a tokio::time::sleep outside the select!: it
\* ends when its five seconds have elapsed, whatever the token.
PollWake ==
    /\ ~slept
    /\ slept' = TRUE
    /\ UNCHANGED <<mainVars, sendVars, previousUpdateText, sample, lastSample,
                   updateText, lastText, editCalls, lastCalls, attempted, shown,
                   ticks, pollEnd, tokenRx, transVars, renVars, splitVars>>

PollNext == PollTick \/ PollCancelled \/ PollFire \/ PollWake

PollSpec == PollInit /\ [][PollNext]_vars

\* ----- the transitions of one TaskState value (state.rs:137-180) -----

Transitions == {"to_waiting_for_url", "to_running", "to_success", "to_failure"}

\* The variant each function matches on, and the one it builds.
SourceOf(f) ==
    CASE f = "to_waiting_for_url" -> "New"
      [] f = "to_running"         -> "WaitingForUrl"
      [] OTHER                    -> "Running"

TargetOf(f) ==
    CASE f = "to_waiting_for_url" -> "WaitingForUrl"
      [] f = "to_running"         -> "Running"
      [] f = "to_success"         -> "Success"
      [] OTHER                    -> "Failure"

\* `if let TaskState::<Source>(..) = self`.
MatchesAny(f, st) == TRUE
Matches(f, st) == st = SourceOf(f)

Chats == {"c1", "c2"}
Urls  == {"u1", "u2"}

\* simple.rs:35-42.
ToTaskDownload(simple, mt) ==
    [task_id |-> simple.task_id, chat_id |-> simple.chat_id,
     media_type |-> mt, url |-> "none"]

\* download.rs:47-49.
SetUrl(td, u) == [td EXCEPT !.url = u]

\* download.rs:53-61.
ToTaskStatsFresh(td) ==
    [task_id |-> td.task_id, chat_id |-> td.chat_id,
     media_type |-> "Mp3", url |-> td.url]
ToTaskStats(td) ==
    [task_id |-> td.task_id, chat_id |-> td.chat_id,
     media_type |-> td.media_type, url |-> td.url]

\* The structs a value of variant st can hold, for task 1.
InnerOf(st) ==
    {[task_id |-> 1, chat_id |-> c, media_type |-> md, url |-> u] :
        c \in Chats,
        md \in IF st = "New" THEN {"none"} ELSE MediaTypes,
        u \in IF st \in {"New", "WaitingForUrl"} THEN {"none"} ELSE Urls}

\* A TaskState value of task 1 in any variant, held by a caller; the task's
\* record is in any state (another handler may have written it since the value
\* was read), a second task may have a record, and the registry is empty.
TransInit ==
    /\ InitProcess /\ SendIdle /\ PollIdle /\ RenIdle /\ SplitIdle
    /\ \E st \in {"New", "WaitingForUrl", "Running", "Success", "Failure"},
          st2 \in {"none", "New", "Running"} :
         /\ persisted = [t \in Tasks |-> IF t = 1 THEN st ELSE IF t = 2 THEN st2 ELSE "none"]
         /\ url       = [t \in Tasks |-> persisted[t] \in {"Running", "Success", "Failure"}]
         /\ written   = [t \in Tasks |-> HistoryOf(persisted[t])]
         /\ \E md \in MediaTypes :
              media = [t \in Tasks |-> IF t = 1 /\ st # "New" THEN md
                                       ELSE IF t = 2 /\ st2 = "Running" THEN "Mp4"
                                       ELSE "none"]
    /\ ledger    = [t \in Tasks |-> t = 1]
    /\ chat      = [t \in Tasks |-> t = 1]
    /\ dir       = [t \in Tasks |-> FALSE]
    /\ nextTask  = 3
    /\ nextH     = 1
    /\ selfState \in {"New", "WaitingForUrl", "Running", "Success", "Failure"}
    /\ inner \in InnerOf(selfState)
    /\ content = NoInner
    /\ lastCall  = "none"
    /\ calls     = 0
    /\ exited    = FALSE

\* misc.rs:55-58: die logs the reason and calls std::process::exit(1).
Die == exited' = TRUE

\* One call of f on the value.  On its source variant the new state is
\* written by update_by_task_id, the value is replaced, and to_running
\* registers the token while to_success and to_failure remove the entry;
\* on any other variant the else branch calls die.
Call(f) ==
    /\ ~exited
    /\ calls < MaxCalls
    /\ calls' = calls + 1
    /\ lastCall' = f
    /\ IF Matches(f, selfState)
       THEN /\ \E md \in MediaTypes, u \in Urls :
                 /\ inner' = CASE f = "to_waiting_for_url" -> ToTaskDownload(inner, md)
                                [] f = "to_running"         -> SetUrl(inner, u)
                                [] OTHER                    -> ToTaskStats(inner)
                 /\ content' = inner'
                 /\ UpdateByTaskId(inner'.task_id, TargetOf(f), inner'.media_type,
                                   inner'.url # "none")
            /\ selfState' = TargetOf(f)
            /\ CASE f = "to_waiting_for_url" -> UNCHANGED reg
                 [] f = "to_running"         -> RegisterTask(1, 1)
                 [] OTHER                    -> RemoveTask(1)
            /\ UNCHANGED exited
       ELSE /\ Die
            /\ UNCHANGED <<persisted, media, url, written, reg, selfState, inner,
                           content>>
    /\ UNCHANGED <<nextTask, ledger, chat, nextH, pc, hVars, ytVars, bgVars,
                   fsVars, poisoned, cancelled, bootVars, ghost, sendVars,
                   pollVars, renVars, splitVars>>

TransNext == \E f \in Transitions : Call(f)

TransitionSpec == TransInit /\ [][TransNext]_vars

\* ===== the loop over the files the download left (download.rs:169-199) =====

MaxBody     == 2
MaxDirFiles == 2
MaxClock    == 1

\* A file name is a sequence of pieces: a run of ordinary characters or an
\* extension.  mediatype.rs:12-18: as_str, with the dot before it.
AsStr(m) ==
    CASE m = "Mp3" -> ".mp3"
      [] m = "Mp4" -> ".mp4"
      [] OTHER     -> ".opus"

\* Titles: any mix of ordinary characters and ".opus".
Bodies == UNION {[1..n -> {"a", ".opus"}] : n \in 0..MaxBody}

\* What yt-dlp leaves for a media type: files named <title>.<extension>
\* (--output "%(title)s.mp3", --audio-format opus) and a thumbnail
\* (--write-thumbnail --convert-thumbnails jpg).
Left(m) == {b \o <<AsStr(m)>> : b \in Bodies} \cup {<<"a", ".jpg">>}

RECURSIVE UpTo(_, _)
UpTo(L, k) ==
    IF k = 0 THEN {{}}
    ELSE LET P == UpTo(L, k - 1) IN P \cup {S \cup {x} : S \in P, x \in L}

\* glob yields the matching paths in alphabetical order.
Rank(p) ==
    CASE p = ".jpg"  -> 1
      [] p = ".mp3"  -> 2
      [] p = ".mp4"  -> 3
      [] p = ".ogg"  -> 4
      [] p = ".opus" -> 5
      [] OTHER       -> 6

RECURSIVE Less(_, _)
Less(x, y) ==
    IF x = <<>> THEN y # <<>>
    ELSE IF y = <<>> THEN FALSE
    ELSE IF Rank(Head(x)) # Rank(Head(y)) THEN Rank(Head(x)) < Rank(Head(y))
    ELSE Less(Tail(x), Tail(y))

RECURSIVE Sorted(_)
Sorted(S) ==
    IF S = {} THEN <<>>
    ELSE LET least == CHOOSE x \in S : \A y \in S \ {x} : Less(x, y)
         IN  <<least>> \o Sorted(S \ {least})

\* Lines 171-174: glob("{path}/*{as_str}").
Filepaths(m, D) == Sorted({n \in D : n[Len(n)] = AsStr(m)})

\* Lines 170, 182-183: Regex `(.*)(\.opus)`, unanchored and greedy, applied to
\* the name of every entry; captures.get(0) is the name up to and including
\* its last ".opus".
IsMatch(n) == \E i \in 1..Len(n) : n[i] = ".opus"

Capture0(n) ==
    LET last == CHOOSE i \in 1..Len(n) :
                    n[i] = ".opus" /\ \A j \in (i+1)..Len(n) : n[j] # ".opus"
    IN  SubSeq(n, 1, last)

\* Lines 184-190: audio_<timestamp>.ogg, the timestamp to the second.
NewName(c) == <<"audio_", ToString(c), ".ogg">>

\* The download has ended; the directory holds up to MaxDirFiles of the files
\* yt-dlp can leave, up to MaxBig of them oversized.
RenInit ==
    /\ FirstStart /\ SendIdle /\ PollIdle /\ TransIdle /\ SplitIdle
    /\ renMedia \in MediaTypes
    /\ renDir \in UpTo(Left(renMedia), MaxDirFiles)
    /\ renBig \in {B \in SUBSET renDir : Cardinality(B) <= MaxBig}
    /\ entries = Filepaths(renMedia, renDir)
    /\ renPaths = <<>>
    /\ renRet = "run"
    /\ clock = 0

\* Line 191: std::fs::rename(oldname, &newname)?, then the new path is pushed.
\* A target that exists is replaced; a source that does not exist is an Err.
Rename(old, new) ==
    IF old \in renDir
    THEN /\ renDir' = (renDir \ {old}) \cup {new}
         /\ renBig' = IF old \in renBig THEN (renBig \ {old}) \cup {new}
                                        ELSE renBig \ {new}
         /\ renPaths' = Append(renPaths, new)
         /\ UNCHANGED renRet
    ELSE /\ renRet' = "err"
         /\ UNCHANGED <<renDir, renBig, renPaths>>

\* Lines 175-198: one entry of the glob.
RenStep ==
    /\ renRet = "run"
    /\ entries # <<>>
    /\ entries' = Tail(entries)
    /\ LET e == Head(entries) IN
         IF e \notin renDir
         THEN /\ renRet' = "err"
              /\ UNCHANGED <<renDir, renBig, renPaths, clock>>
         ELSE IF e \in renBig
         THEN UNCHANGED <<renDir, renBig, renPaths, renRet, clock>>
         ELSE IF IsMatch(e)
         THEN \E c \in {clock, clock + 1} \cap (0..MaxClock) :
                  /\ clock' = c
                  /\ Rename(Capture0(e), NewName(c))
         ELSE /\ renPaths' = Append(renPaths, e)
              /\ UNCHANGED <<renDir, renBig, renRet, clock>>
    /\ UNCHANGED <<mainVars, sendVars, pollVars, transVars, splitVars, renMedia>>

\* The glob is exhausted.
RenDone ==
    /\ renRet = "run"
    /\ entries = <<>>
    /\ renRet' = "ok"
    /\ UNCHANGED <<mainVars, sendVars, pollVars, transVars, splitVars, renMedia, renDir,
                   renBig, entries, renPaths, clock>>

RenNext == RenStep \/ RenDone

RenameSpec == RenInit /\ [][RenNext]_vars

\* ===== split_text (misc.rs:113-129) =====

ChunkLen == 4096

\* A &str is a sequence of UTF-8 bytes; a byte is <<c, k>>, the k-th byte of
\* the character c.  A String the function returns is kept as its sequence of
\* characters.
Characters == {"a", "U+00E9", "U+20AC", "U+1D11E"}

Width(c) ==
    CASE c = "a"       -> 1
      [] c = "U+00E9"  -> 2
      [] c = "U+1D11E" -> 4
      [] OTHER         -> 3       \* U+20AC, and U+FFFD

Encode(c) == [k \in 1..Width(c) |-> <<c, k>>]
Ascii(n)  == [i \in 1..n |-> <<"a", 1>>]

\* The texts looked at: ASCII, one character of any width, ASCII; the lengths
\* put the character before, on and after the limits the function tests.
Leads  == {0, 1, 4094, 4095, 4096, 8191, 16381, 16383, 16384}
Trails == {0, 1, 4096}
Texts  == {Ascii(n1) \o Encode(c) \o Ascii(n2) :
              n1 \in Leads, c \in Characters, n2 \in Trails}

\* text.to_string(): the characters of a well-formed text.
Str(bytes) ==
    LET IsLast(b) == b[2] = Width(b[1])
        lasts == SelectSeq(bytes, IsLast)
    IN  [i \in 1..Len(lasts) |-> lasts[i][1]]

\* String::from_utf8_lossy on a slice of a well-formed text: a continuation
\* byte whose lead byte is not in the slice becomes U+FFFD, a character whose
\* bytes are all in the slice is kept, and a lead byte whose character is cut
\* by the end of the slice becomes one U+FFFD with what follows it.
FromUtf8Lossy(chunk) ==
    LET n == Len(chunk)
        marked == [p \in 1..n |-> <<chunk[p][1], chunk[p][2], p>>]
        Whole(b)     == b[2] = Width(b[1]) /\ b[3] >= b[2]
        Headless(b)  == b[2] > 1 /\ b[3] < b[2]
        Truncated(b) == b[2] = 1 /\ b[3] + Width(b[1]) - 1 > n
        Kept(b) == Whole(b) \/ Headless(b) \/ Truncated(b)
        kept == SelectSeq(marked, Kept)
    IN  [i \in 1..Len(kept) |-> IF Whole(kept[i]) THEN kept[i][1] ELSE "U+FFFD"]

\* text.as_bytes().chunks(4096)
Chunks(bytes) ==
    LET n == Len(bytes)
    IN  [j \in 1..((n + ChunkLen - 1) \div ChunkLen) |->
            SubSeq(bytes, (j - 1) * ChunkLen + 1,
                   IF j * ChunkLen < n THEN j * ChunkLen ELSE n)]

TooLargeText == <<"Error traceback is too large. Read the logs for more info.">>

SplitText(bytes) ==
    IF Len(bytes) > ChunkLen * 4
    THEN <<TooLargeText>>
    ELSE IF Len(bytes) > ChunkLen
    THEN [j \in 1..Len(Chunks(bytes)) |-> FromUtf8Lossy(Chunks(bytes)[j])]
    ELSE <<Str(bytes)>>

SplitInit ==
    /\ FirstStart /\ SendIdle /\ PollIdle /\ TransIdle /\ RenIdle
    /\ textBytes \in Texts
    /\ stringvec = <<>>
    /\ splitDone = FALSE

SplitCall ==
    /\ ~splitDone
    /\ stringvec' = SplitText(textBytes)
    /\ splitDone' = TRUE
    /\ UNCHANGED <<mainVars, sendVars, pollVars, transVars, renVars, textBytes>>

SplitSpec == SplitInit /\ [][SplitCall]_vars

\* ===== claims =====

IsPrefix(s, q) == Len(s) <= Len(q) /\ \A i \in 1..Len(s) : s[i] = q[i]

\* C1: the states written to persistence for a task are a prefix of
\* New, WaitingForUrl, Running, Success or of New, WaitingForUrl, Running,
\* Failure: no state is written twice and nothing follows a terminal state.
C1_WriteOrder ==
    \A t \in Tasks :
        \/ IsPrefix(written[t], HistoryOf("Success"))
        \/ IsPrefix(written[t], HistoryOf("Failure"))

\* C2: the registry holds no handle for a task whose persisted state is New,
\* WaitingForUrl, Success or Failure (the map holds at most one handle per task
\* by construction).
C2_HandleOnlyWhileRunning ==
    \A t \in Tasks :
        reg[t] # 0 => persisted[t] \notin {"New", "WaitingForUrl", "Success", "Failure"}

C4_CancelEndsSupervisor ==
    \A h \in Handlers : firedMid[h] ~> (ytres[h] # "none")

\* C5: a run whose token had fired before yt_dlp returned delivers no file and
\* does not end as success.
C5_NoSuccessAfterCancel ==
    \A h \in Handlers : firedEarly[h] => (delivered[h] = 0 /\ outcome[h] # "ok")

\* C6: if the token of a task fires while its child is running, a later state is
\* reached in which the poller has ended, the working directory is gone and
\* the registry holds no handle for the task.
TornDown(h) ==
    /\ poller[h] = "done"
    /\ ~dir[htask[h]]
    /\ reg[htask[h]] = 0

C6_CancelTearsDown ==
    \A h \in Handlers : <>firedMid[h] => <>(firedMid[h] /\ TornDown(h))

\* The handlers that took a task to Running and have ended.
EndedOwners == {h \in Handlers : htask[h] # 0 /\ pc[h] \in {"returned", "panicked"}}

\* C7: when the handler of a task that /stop cancelled during its download has
\* ended, the task's persisted state is Success or Failure.
C7_CancelledEndsTerminal ==
    \A h \in EndedOwners : firedMid[h] => persisted[htask[h]] \in Terminal

\* C8: when the handler of a task that was never cancelled and whose child has
\* exited has ended, the task's persisted state is Success or Failure.
C8_RunningEndsTerminal ==
    \A h \in EndedOwners :
        (~stopHit[htask[h]] /\ ytres[h] = "ok") => persisted[htask[h]] \in Terminal

\* The positions inside yt_dlp, and those between a handler's read of a task
\* and its last transition on it.
InSupervisor(h) == pc[h] \in {"yt_start", "yt_wait"}
OnTask(h, t)    == htask[h] = t /\ Active(h)

\* C9: no two supervisors run for one task, and no two handlers have a
\* transition on one task under way.
C9_OneHandlerPerTask ==
    \A t \in Tasks :
        /\ Cardinality({h \in Handlers : htask[h] = t /\ InSupervisor(h)}) <= 1
        /\ Cardinality({h \in Handlers : OnTask(h, t)}) <= 1

\* C10: a cancel_task call on a task with no registered handle returns false
\* and leaves the registry, every token and every working directory as they were.
C10_CancelAbsent ==
    [][\A h \in Handlers, t \in Tasks :
          (StopCancelOn(h, t) /\ reg[t] = 0) =>
              /\ CancelResult(t) = "false"
              /\ UNCHANGED <<reg, cancelled, poisoned, dir, files>>]_vars

\* C11: a cancel_task call on a task with a registered handle returns true,
\* and in the same step the entry is removed and its token cancelled, so that
\* afterwards get_token finds no entry and a second cancel_task returns false.
C11_CancelRegistered ==
    [][\A h \in Handlers, t \in Tasks :
          (StopCancelOn(h, t) /\ reg[t] # 0) =>
              /\ CancelResult(t) = "true"
              /\ reg'[t] = 0
              /\ cancelled'[reg[t]]
              /\ GetTokenFails(t)'
              /\ CancelResult(t)' = "false"]_vars

\* The run ended on the verdict of lines 204-219: no file was collected.
ZeroFiles(h) == outcome[h] = "err" /\ error[h] \in {"output", "cancelled"}

TooLarge == "Files larger than 2GB are not supported."

\* C13: when the child has ended and the scan finds oversized files only,
\* nothing is delivered, the
\* error reported carries the "too large" diagnostic, and the task is written
\* as Failure.
C13_OversizedOnly ==
    \A h \in Handlers :
        (/\ ytres[h] = "ok" /\ listed[h] > 0 /\ paths[h] = 0
         /\ pc[h] \in {"to_terminal", "deregister", "returned"}) =>
            /\ delivered[h] = 0
            /\ outcome[h] = "err"
            /\ error[h] = TooLarge
            /\ pc[h] # "to_terminal" => persisted[htask[h]] = "Failure"

\* C14: send_file makes at most 10 delivery calls for a file, makes none after
\* the first one that succeeded, and returns Ok whenever one succeeded, the
\* tenth after nine failures included.
C14_RetryBound ==
    /\ attempt <= 10
    /\ okAt # 0 => (attempt = okAt /\ sendRet = "Ok")

\* The tenth delivery call succeeded after nine failures.
C14_Witness == okAt = 10 /\ attempt = 10 /\ sendRet = "Ok"

\* C15: when all 10 delivery calls of a file have failed, send_file returns an
\* error and makes no 11th call.
C15_Abandoned ==
    /\ attempt <= 10
    /\ (attempt = 10 /\ okAt = 0 /\ sendRet \notin {"none", "panic"}) => sendRet = "Err"

\* C16: in the poller two consecutive samples that format to the same text
\* produce at most one edit call between them, and a sample produces exactly
\* one edit call when its text differs from the last text an edit was made
\* for, none when it does not.
C16_EditOnChange ==
    ticks > 0 =>
        /\ (ticks > 1 /\ updateText = lastText) => lastCalls + editCalls <= 1
        /\ editCalls = (IF updateText # attempted THEN 1 ELSE 0)

\* Two consecutive samples of different sizes format to the same text; the
\* first produced an edit call, which failed, and the second produced none.
C16_Witness ==
    /\ ticks > 1
    /\ sample # lastSample
    /\ updateText = lastText
    /\ lastCalls = 1
    /\ editCalls = 0
    /\ shown # updateText

\* C20: a call of to_waiting_for_url, to_running, to_success or to_failure on
\* a value that is not in the function's source state (New, WaitingForUrl,
\* Running, Running) terminates the process, writes nothing to persistence
\* and leaves the registry as it was.
C20_WrongSourceDies ==
    [][\A f \in Transitions :
          (Call(f) /\ selfState # SourceOf(f)) =>
              /\ exited'
              /\ UNCHANGED <<persisted, media, url, written, reg>>]_vars

\* to_running was called on a value that an earlier to_running had made
\* Running and registered: the process has ended with the entry in place.
C20_Witness ==
    /\ exited
    /\ lastCall = "to_running"
    /\ selfState = "Running"
    /\ reg[1] # 0

\* C17: once download_and_send_files has returned, with Ok or with any error,
\* the poller it spawned terminates.
C17_PollerEnds ==
    \A h \in Handlers : (outcome[h] # "none") ~> (poller[h] = "done")

\* C18: when a task is persisted as Success none of its tracked messages is
\* left in the chat and no tracked-message record of it is left in the ledger.
C18_SuccessPurges ==
    \A t \in Tasks : persisted[t] = "Success" => (~chat[t] /\ ~ledger[t])

\* C19: when download_and_send_files returns, with Ok or with any error, the
\* task's working directory does not exist.
C19_ReturnRemovesDir ==
    [][\A h \in Handlers :
          (outcome[h] = "none" /\ outcome'[h] # "none") => ~dir'[htask[h]]]_vars

\* C21: the handler of a text that is no valid URL, received while a task is
\* WaitingForUrl, writes no task record, registers no handle, starts no
\* download, and sends and records its error text under the task; the task
\* is WaitingForUrl afterwards, so a later valid URL is taken for it.
C21_InvalidUrlKeepsWaiting ==
    [][\A h \in Handlers :
          (MsgRead(h) /\ pc'[h] \notin {"returned", "to_running"}) =>
              /\ pc'[h] = "rejected"
              /\ persisted[htask'[h]] = "WaitingForUrl"
              /\ UNCHANGED <<persisted, media, url, written>>
              /\ UNCHANGED <<reg, cancelled, child, poller, dir, files>>
              /\ ledger'[htask'[h]] /\ chat'[htask'[h]]
              /\ htask'[h] \in TasksIn({"WaitingForUrl"})']_vars

\* A task whose chat sent an invalid URL was later taken to Running by a valid
\* one, with its handle registered.
C21_Witness ==
    \E h, g \in Handlers :
        /\ pc[h] = "rejected"
        /\ h < g
        /\ htask[g] = htask[h]
        /\ persisted[htask[h]] = "Running"
        /\ reg[htask[h]] = g

\* C22: every persisted task record carries a url exactly when its state is
\* Running, Success or Failure, and a media_type exactly when its state is
\* WaitingForUrl, Running, Success or Failure.
C22_PayloadMatchesState ==
    \A t \in Tasks :
        HasRecord(t) =>
            /\ url[t] <=> persisted[t] \in {"Running", "Success", "Failure"}
            /\ media[t] # "none" <=>
                   persisted[t] \in {"WaitingForUrl", "Running", "Success", "Failure"}

\* A record that was Running has been written back to WaitingForUrl by a
\* handler that had read it as New.
C22_Witness ==
    \E t \in Tasks :
        /\ persisted[t] = "WaitingForUrl"
        /\ \E i \in 1..Len(written[t]) : written[t][i] = "Running"

\* C23: while a handler is at work on a task, storage holds the task's record
\* (one record: a transition replaces it), so that every transition finds a
\* record to replace, also when a /clear of the chat runs at the same time.
C23_OneRecordWhileHandled ==
    \A h \in Handlers : (htask[h] # 0 /\ Active(h)) => HasRecord(htask[h])

\* The steps of a task's supervisor and of its child that write the directory.
SupervisorWrites(h) == Cleanup0(h) \/ YtStart(h) \/ ChildWrite(h) \/ FinalCleanup(h)

\* C24: while a task is persisted as Running, every step that creates or
\* removes its working directory or a file in it is a step of the task's own
\* supervisor or of its child.
C24_DirOwnedBySupervisor ==
    [][\A t \in Tasks :
          (persisted[t] = "Running" /\ <<dir[t], files[t]>> # <<dir'[t], files'[t]>>) =>
              \E h \in Handlers : htask[h] = t /\ SupervisorWrites(h)]_vars

\* C25: the supervisor's first cleanup ends without fault, leaving no
\* directory, whether or not the poller has created the directory yet; and
\* when the child is spawned the directory exists and is empty.
C25_InitialClearing ==
    [][\A h \in Handlers :
          /\ Cleanup0(h) => (pc'[h] = "get_token" /\ ~dir'[htask[h]])
          /\ YtStart(h) => (dir'[htask[h]] /\ files'[htask[h]] = 0)]_vars

\* C26: an entry under 2,000,000,000 bytes of a Voice task is renamed to
\* audio_<timestamp>.ogg and that path is collected; an entry of an Mp3 or Mp4
\* task is collected under its own name and nothing in the directory is
\* renamed, whatever the name.
C26_RenameVoiceOnly ==
    [][(RenStep /\ Head(entries) \notin renBig) =>
          /\ renRet' = "run"
          /\ IF renMedia = "Voice"
             THEN /\ \E c \in 0..MaxClock :
                        renPaths' = Append(renPaths, NewName(c))
                  /\ renPaths'[Len(renPaths')] \in renDir'
                  /\ Head(entries) \notin renDir'
             ELSE /\ renDir' = renDir
                  /\ renPaths' = Append(renPaths, Head(entries))]_vars

RECURSIVE Concat(_)
Concat(ss) == IF ss = <<>> THEN <<>> ELSE Head(ss) \o Concat(Tail(ss))

\* C27: split_text returns the text itself as one chunk when its length is
\* at most 4096; ceil(length / 4096) chunks of at most 4096 units each whose
\* concatenation is the text when the length is above 4096 and at most
\* 4 * 4096; and the one fixed message when the length is above 4 * 4096.
C27_SplitText ==
    splitDone =>
        LET n == Len(textBytes) IN
        IF n <= ChunkLen THEN stringvec = <<Str(textBytes)>>
        ELSE IF n <= 4 * ChunkLen
        THEN /\ Len(stringvec) = (n + ChunkLen - 1) \div ChunkLen
             /\ \A j \in 1..Len(stringvec) : Len(stringvec[j]) <= ChunkLen
             /\ Concat(stringvec) = Str(textBytes)
        ELSE stringvec = <<TooLargeText>>

\* C28: whenever download_and_send_files looks its task's token up, the
\* registry holds a token under that task id.
C28_TokenThere ==
    [][\A h \in Handlers : GetToken(h) => reg[htask[h]] # 0]_vars

\* The handlers of task t that have passed to_running's write and whose child
\* has not ended yet.
Downloading(t) ==
    {g \in Handlers : htask[g] = t /\ pc[g] \in {"register", "spawn_poller",
                         "cleanup0", "get_token", "yt_start", "yt_wait"}}

\* C29: when the /stop handler calls cancel_task on a task that is persisted
\* as Running and whose download has not ended, the token of that download
\* is signalled.
C29_StopSignals ==
    [][\A h \in Handlers, t \in Tasks :
          (StopCancelOn(h, t) /\ persisted[t] = "Running") =>
              \A g \in Downloading(t) : cancelled'[g]]_vars

\* C30: cancel_task on a registered task returns without a panic whether or
\* not the task's working directory exists, and leaves the registry's mutex
\* usable by every later call.
C30_CancelNeverFaults ==
    [][\A h \in Handlers, t \in Tasks :
          (StopCancelOn(h, t) /\ ~poisoned /\ reg[t] # 0) =>
              (pc'[h] # "panicked" /\ ~poisoned')]_vars

\* C31: once the token has fired the poller makes no further timer wait and
\* takes no further sample of the directory: its next step is the cancelled
\* branch.
C31_CancelSeenAtOnce ==
    [][tokenRx => ~(PollWake \/ PollTick)]_vars

\* C32: whether or not the "Preparing the download..." text could be sent,
\* process_request goes on to the download: the handler that has registered
\* its token spawns the poller next and does not fault.
C32_SendFailureNotFatal ==
    [][\A h \in Handlers :
          (Register(h) /\ ~poisoned) => pc'[h] = "spawn_poller"]_vars

\* C33: the remove_task that ends to_success and to_failure returns normally
\* and leaves the registry without an entry for the task, whether or not it
\* held one, and with every other task's entry as it was.
C33_RemoveIdempotent ==
    [][\A h \in Handlers :
          Deregister(h) =>
              /\ pc'[h] = "returned"
              /\ reg'[htask[h]] = 0
              /\ \A t \in Tasks \ {htask[h]} : reg'[t] = reg[t]]_vars

\* Delivery calls of the file that have failed so far.
Failed == IF okAt # 0 THEN attempt - 1 ELSE attempt

\* C34: after f failed delivery calls of a file the failure text has been
\* reported min(f, 9) times, once after each of the failed attempts 1..9 and
\* not after the tenth, and a cooldown has followed every failed attempt.
C34_ReportsAndCooldowns ==
    /\ reports = (IF Failed < 9 THEN Failed ELSE 9)
    /\ cooldowns = Failed

\* All ten delivery calls have failed: nine reports, none after the tenth.
C34_Witness == attempt = 10 /\ okAt = 0 /\ reports = 9 /\ cooldowns = 10

\* C35: when download_and_send_files removes the working directory at its
\* end, no poller of the task is still to start or still running.
C35_RemovalAfterPoller ==
    [][\A h \in Handlers :
          FinalCleanup(h) =>
              \A g \in Handlers :
                  htask[g] = htask[h] => poller[g] \notin {"spawned", "running"}]_vars

\* C36: when the loop has ended on a Voice task, paths names every file it
\* visited under 2,000,000,000 bytes once: the paths are pairwise different
\* and each is a file of the directory.
C36_DistinctOutputs ==
    (renMedia = "Voice" /\ renRet = "ok") =>
        /\ \A i, j \in 1..Len(renPaths) : i # j => renPaths[i] # renPaths[j]
        /\ \A i \in 1..Len(renPaths) : renPaths[i] \in renDir
        /\ Cardinality(renDir) >= Len(renPaths)

\* C37: a media-type callback writes WaitingForUrl only over a record that is
\* New at that moment, and a callback that finds no New task ends without a
\* fault.
C37_CallbackOnNewOnly ==
    [][\A h \in Handlers :
          /\ ToWaitingForUrl(h) => persisted[htask[h]] = "New"
          /\ CallbackRead(h) => pc'[h] # "panicked"]_vars

\* C38: a deletion made by /clear removes the state record and the tracked
\* messages of a task that is New, WaitingForUrl or Failure at that moment;
\* the records of a Running or Success task are left as they are.
C38_ClearSparesRunning ==
    [][\A h \in Handlers :
          ClearDelete(h) =>
              \A t \in TasksIn({"Running", "Success"}) :
                  /\ persisted'[t] = persisted[t]
                  /\ media'[t] = media[t]
                  /\ url'[t] = url[t]
                  /\ ledger'[t] = ledger[t]]_vars

\* C39: a transition keeps the value's task_id and chat_id; to_running keeps
\* the media_type chosen at to_waiting_for_url, to_success and to_failure keep
\* it and the url supplied at to_running; what is written is the new value,
\* under its task_id, and no other task's record changes.
C39_TransitionsCarryFields ==
    [][\A f \in Transitions :
          (Call(f) /\ selfState = SourceOf(f)) =>
              /\ inner'.task_id = inner.task_id
              /\ inner'.chat_id = inner.chat_id
              /\ f # "to_waiting_for_url" => inner'.media_type = inner.media_type
              /\ f \in {"to_success", "to_failure"} => inner'.url = inner.url
              /\ f = "to_running" => inner'.url \in Urls
              /\ content' = inner'
              /\ media'[inner.task_id] = inner'.media_type
              /\ \A t \in Tasks \ {inner.task_id} :
                    /\ persisted'[t] = persisted[t]
                    /\ media'[t] = media[t]
                    /\ url'[t] = url[t]]_vars

\* A New value has been taken to Success by three calls, next to the Running
\* record of another task.
C39_Witness ==
    /\ calls = 3
    /\ lastCall = "to_success"
    /\ selfState = "Success"
    /\ inner.media_type = "Voice"
    /\ inner.url = "u2"
    /\ content = inner
    /\ persisted[2] = "Running"

====
